---- MODULE Spec2Model ----
(***************************************************************************)
(* blake3-lamport-signatures: Lamport one-time signatures, the binary      *)
(* Merkle tree with inclusion proofs, the many-time signer built from the   *)
(* two, and the command-line signer.                                        *)
(*                                                                          *)
(* Byte strings are sequences of symbols.  A symbol is a tagged pair:       *)
(*   <<"b", n>>  one byte of value n                                        *)
(*   <<"s", id>> one 32-byte block of output of the random generator        *)
(*   <<"h", x>>  the 32-byte BLAKE3 digest of the byte string x             *)
(* so the digest is injective and well founded (no collisions, no cycles),  *)
(* and a digest fed to a hasher is one symbol of the hashed string.  In an  *)
(* encoding a u64 takes its 8 bytes and a 32-byte digest or secret chunk    *)
(* takes one symbol, so a Lamport signature takes NumBits symbols and a     *)
(* Lamport public key 2 * NumBits.                                          *)
(*                                                                          *)
(* Specifications: Spec (the many-time signer), CliSpec (the command line   *)
(* on its files), MerkleSpec (tree, prove, verify), VerifySpec (verify on   *)
(* arbitrary input), LamportSpec (one-time signatures), CodecSpec (the      *)
(* encoders and decoders), BuildSpec (a run of Tree::new).                  *)
(***************************************************************************)
EXTENDS Integers, Sequences, FiniteSets, TLC

(***************************************************************************)
(* Bounds of the model.                                                     *)
(***************************************************************************)
\* digest bits signed by a Lamport key (256 in the code, scaled down)
NumBits == 2
\* messages are the one-byte strings 0 .. MaxMsg
MaxMsg == 1
\* a many-time key holds 1 .. MaxKeys Lamport keys
MaxKeys == 2
\* sign calls (library and command line together) made on one key
MaxCalls == 3
\* leaves of a tree of the Merkle harness
MaxLeaves == 4
\* entries of the frontier of a proof made up by the caller
MaxFrontier == 2
\* levels a run of Tree::new is followed for
MaxLevels == 4

(***************************************************************************)
(* Option and panic outcomes.                                               *)
(***************************************************************************)
None == <<"None">>
Some(x) == <<"Some", x>>
Panic == <<"Panic">>
IsSome(r) == r[1] = "Some"
Ok(x) == <<"Ok", x>>
Err(e) == <<"Err", e>>
IsOk(r) == r[1] = "Ok"

(***************************************************************************)
(* The hash.                                                                *)
(***************************************************************************)
Byte(n) == <<"b", n>>
Block(id) == <<"s", id>>

\* blake3::hash: the digest of a byte string
hash(bytes) == <<"h", bytes>>

\* Hash::as_bytes of a digest fed to a hasher or written out: one symbol
as_bytes(h) == <<h>>

\* hash_two_hashes: one hasher updated with h1 then h2
hash_two_hashes(h1, h2) == hash(as_bytes(h1) \o as_bytes(h2))

\* the numeric bytes of a message digest, read bit by bit by the Lamport
\* code: the digest of the one-byte message n is modelled as the byte n,
\* which is injective on the messages of the model
digest_bytes(h) == <<h[2][1][2]>>

Messages == {<<Byte(n)>> : n \in 0..MaxMsg}

(***************************************************************************)
(* lamport.rs                                                               *)
(***************************************************************************)
Pow2(n) == IF n = 0 THEN 1 ELSE IF n = 1 THEN 2 ELSE IF n = 2 THEN 4
           ELSE IF n = 3 THEN 8 ELSE IF n = 4 THEN 16 ELSE IF n = 5 THEN 32
           ELSE IF n = 6 THEN 64 ELSE 128

bitmask_for(index) == Pow2(index % 8)

\* byte & mask == mask, for a one-bit mask
bit_of_byte(index, byte) == (byte \div bitmask_for(index)) % 2 = 1

\* index is 0-based, as in the code
bit_of_byteslice(index, bytes) ==
    bit_of_byte(index % 8, bytes[(index \div 8) + 1])

\* lamport::PrivateKey::generate, the generator having drawn key number k:
\* left and right are NumBits chunks of fresh random blocks
lamport_generate(k) ==
    [left  |-> [i \in 1..NumBits |-> <<Block(<<k, 0, i>>)>>],
     right |-> [i \in 1..NumBits |-> <<Block(<<k, 1, i>>)>>]]

\* lamport::PrivateKey::public_key
lamport_public_key(sk) ==
    [left_hashes  |-> [i \in 1..NumBits |-> hash(sk.left[i])],
     right_hashes |-> [i \in 1..NumBits |-> hash(sk.right[i])]]

\* lamport::PublicKey::to_bytes: the left hashes, then the right hashes
to_bytes(pk) == pk.left_hashes \o pk.right_hashes

\* a plausible slip: the sides swapped
lamport_sign_swapped(sk, message) ==
    [i \in 1..NumBits |->
        IF bit_of_byteslice(i - 1, digest_bytes(hash(message)))
        THEN sk.right[i] ELSE sk.left[i]]

\* lamport::PrivateKey::sign: chunk i exposes left[i] when bit i of the
\* digest is set, right[i] otherwise
lamport_sign(sk, message) ==
    [i \in 1..NumBits |->
        IF bit_of_byteslice(i - 1, digest_bytes(hash(message)))
        THEN sk.left[i] ELSE sk.right[i]]

\* a plausible slip: the left hash is compared whatever the bit
lamport_verify_left_only(pk, message, signature) ==
    \A i \in 1..NumBits : hash(signature[i]) = pk.left_hashes[i]

\* lamport::PublicKey::verify
lamport_verify(pk, message, signature) ==
    \A i \in 1..NumBits :
        hash(signature[i]) =
            (IF bit_of_byteslice(i - 1, digest_bytes(hash(message)))
             THEN pk.left_hashes[i] ELSE pk.right_hashes[i])

\* lamport::PublicKey::verify, how the call ends: Some(value returned), or
\* Panic when bit_of_byteslice indexes past the end of the digest
lamport_verify_outcome(pk, message, signature) ==
    IF \E i \in 1..NumBits :
           ((i - 1) \div 8) + 1 > Len(digest_bytes(hash(message)))
    THEN Panic
    ELSE Some(lamport_verify(pk, message, signature))

(***************************************************************************)
(* merkle/internal.rs                                                       *)
(***************************************************************************)
NodeWithoutSibling == <<"NodeWithoutSibling">>
LeftChildWithSibling(h) == <<"LeftChildWithSibling", h>>
RightChildWithSibling(h) == <<"RightChildWithSibling", h>>

\* a plausible slip: the unpaired last node is hashed with itself
NextLevelSelfPaired(top) ==
    LET n == Len(top)
        odd == IF n % 2 = 0 THEN 0 ELSE 1
        m == n - odd
    IN  [i \in 1..((m \div 2) + odd) |->
            IF i <= m \div 2
            THEN hash_two_hashes(top[2 * i - 1], top[2 * i])
            ELSE hash_two_hashes(top[m + 1], top[m + 1])]

\* one iteration of the build loop of Tree::new on the top level `top`
\* (n > 2): pairs are hashed, the unpaired last node is copied
NextLevel(top) ==
    LET n == Len(top)
        odd == IF n % 2 = 0 THEN 0 ELSE 1
        m == n - odd
    IN  [i \in 1..((m \div 2) + odd) |->
            IF i <= m \div 2
            THEN hash_two_hashes(top[2 * i - 1], top[2 * i])
            ELSE top[m + 1]]

\* the build loop of Tree::new; levels[1] is the front of the VecDeque
RECURSIVE BuildLoop(_)
BuildLoop(levels) ==
    IF Len(levels[1]) = 2
    THEN [root |-> hash_two_hashes(levels[1][1], levels[1][2]),
          levels |-> levels]
    ELSE BuildLoop(<<NextLevel(levels[1])>> \o levels)

\* Tree::new, for at least one leaf
Tree_new(leaves) ==
    LET level0 == [i \in 1..Len(leaves) |-> hash(leaves[i])]
    IN  IF Len(level0) = 1
        THEN [root |-> level0[1], levels |-> <<>>]
        ELSE BuildLoop(<<level0>>)

\* Tree::num_items
num_items(tree) ==
    IF Len(tree.levels) = 0 THEN 1
    ELSE Len(tree.levels[Len(tree.levels)])

\* Tree::commitment
commitment(tree) == [root |-> tree.root, num_items |-> num_items(tree)]

\* one iteration of the loop of Tree::prove, up to and including
\* `depth -= 1`; st.panic records an index out of bounds
ProveStep(tree, st) ==
    LET level == tree.levels[st.depth]
        odd == st.width % 2
        ci == st.current_index
    IN  IF ci = st.width /\ odd = 1
        THEN [st EXCEPT !.frontier = Append(@, NodeWithoutSibling),
                        !.current_index = st.width \div 2,
                        !.depth = @ - 1]
        ELSE IF ci % 2 = 0
        THEN IF ci + 1 >= Len(level)
             THEN [st EXCEPT !.panic = TRUE]
             ELSE [st EXCEPT
                     !.frontier = Append(@, LeftChildWithSibling(level[ci + 2])),
                     !.current_index = ci \div 2,
                     !.depth = @ - 1]
        ELSE IF ci - 1 >= Len(level)
             THEN [st EXCEPT !.panic = TRUE]
             ELSE [st EXCEPT
                     !.frontier = Append(@, RightChildWithSibling(level[ci])),
                     !.current_index = (ci - 1) \div 2,
                     !.depth = @ - 1]

\* the loop of Tree::prove: break at depth 0, else the next width
RECURSIVE ProveLoop(_, _)
ProveLoop(tree, st) ==
    LET odd == st.width % 2
        s1 == ProveStep(tree, st)
    IN  IF s1.panic THEN s1
        ELSE IF s1.depth = 0 THEN s1
        ELSE ProveLoop(tree, [s1 EXCEPT !.width = (st.width \div 2) + odd])

\* Tree::prove: Some(proof), None, or a panic
Tree_prove(tree, item, index) ==
    LET depth == Len(tree.levels)
    IN  IF depth = 0 /\ index # 0 THEN None
        ELSE IF depth = 0 /\ tree.root = hash(item)
        THEN Some([item |-> item, index |-> index, frontier |-> <<>>])
        \* self.levels[depth - 1] with depth = 0
        ELSE IF depth = 0 THEN Panic
        ELSE IF index >= Len(tree.levels[depth]) THEN None
        ELSE IF tree.levels[depth][index + 1] # hash(item) THEN None
        ELSE LET end == ProveLoop(tree,
                            [depth |-> depth, width |-> num_items(tree),
                             current_index |-> index, frontier |-> <<>>,
                             panic |-> FALSE])
             IN  IF end.panic THEN Panic
                 ELSE Some([item |-> item, index |-> index,
                            frontier |-> end.frontier])

\* a plausible slip: the parity of the position is not checked
VerifyStepNoParity(st, node) ==
    LET odd == st.width % 2
        up == (st.width \div 2) + odd
    IN  IF node[1] = "NodeWithoutSibling"
        THEN IF st.current_index # st.width /\ odd # 1
             THEN [st EXCEPT !.rejected = TRUE]
             ELSE [st EXCEPT !.current_index = @ \div 2, !.width = up]
        ELSE IF node[1] = "LeftChildWithSibling"
        THEN [st EXCEPT
                !.current_hash = hash_two_hashes(@, node[2]),
                !.current_index = @ \div 2, !.width = up]
        ELSE IF st.current_index < 1
        THEN [st EXCEPT !.panic = TRUE]
        ELSE [st EXCEPT
                !.current_hash = hash_two_hashes(node[2], @),
                !.current_index = (@ - 1) \div 2, !.width = up]

\* one iteration of the loop of Commitment::verify on one frontier entry;
\* st.rejected records `return false`, st.panic the u64 subtraction
\* `current_index - 1` going below zero
VerifyStep(st, node) ==
    LET odd == st.width % 2
        up == (st.width \div 2) + odd
    IN  IF node[1] = "NodeWithoutSibling"
        THEN IF st.current_index # st.width /\ odd # 1
             THEN [st EXCEPT !.rejected = TRUE]
             ELSE [st EXCEPT !.current_index = @ \div 2, !.width = up]
        ELSE IF node[1] = "LeftChildWithSibling"
        THEN IF st.current_index % 2 # 0
             THEN [st EXCEPT !.rejected = TRUE]
             ELSE [st EXCEPT
                     !.current_hash = hash_two_hashes(@, node[2]),
                     !.current_index = @ \div 2, !.width = up]
        ELSE IF st.current_index % 2 # 1
             THEN [st EXCEPT !.rejected = TRUE]
             ELSE IF st.current_index < 1
             THEN [st EXCEPT !.panic = TRUE]
             ELSE [st EXCEPT
                     !.current_hash = hash_two_hashes(node[2], @),
                     !.current_index = (@ - 1) \div 2, !.width = up]

\* the loop of Commitment::verify over frontier[i ..]
RECURSIVE VerifyLoop(_, _, _)
VerifyLoop(st, frontier, i) ==
    IF st.rejected \/ st.panic \/ i > Len(frontier) THEN st
    ELSE VerifyLoop(VerifyStep(st, frontier[i]), frontier, i + 1)

\* the locals of Commitment::verify before the loop
VerifyStart(c, pf) ==
    [current_hash |-> hash(pf.item), current_index |-> pf.index,
     width |-> c.num_items, rejected |-> FALSE, panic |-> FALSE]

\* Commitment::verify, the value it returns
Commitment_verify(c, pf) ==
    LET end == VerifyLoop(VerifyStart(c, pf), pf.frontier, 1)
    IN  ~end.rejected /\ ~end.panic /\ end.current_hash = c.root

\* Commitment::verify, how the call ends: Some(value returned) or Panic
Commitment_verify_outcome(c, pf) ==
    IF VerifyLoop(VerifyStart(c, pf), pf.frontier, 1).panic THEN Panic
    ELSE Some(Commitment_verify(c, pf))

\* the bytes of a u64 (u64::to_be_bytes, u64::from_be_bytes)
U64Bytes == 8

RECURSIVE be_bytes(_, _)
be_bytes(n, k) ==
    IF k = 0 THEN <<>> ELSE be_bytes(n \div 256, k - 1) \o <<Byte(n % 256)>>

\* u64::to_be_bytes
to_be_bytes(n) == be_bytes(n, U64Bytes)

\* u64::from_be_bytes
RECURSIVE from_be_bytes(_)
from_be_bytes(bytes) ==
    IF Len(bytes) = 0 THEN 0
    ELSE 256 * from_be_bytes(SubSeq(bytes, 1, Len(bytes) - 1))
             + bytes[Len(bytes)][2]

NotEnoughInput(n) == <<"ProofDecodingError::NotEnoughInput", n>>
InvalidProofNodeType(b) == <<"ProofDecodingError::InvalidProofNodeType", b>>

\* a plausible slip: the error carries the bytes left, not the length
next_byte_remaining(encoded, i) ==
    IF i < Len(encoded)
    THEN Ok([value |-> encoded[i + 1], i |-> i + 1])
    ELSE Err(NotEnoughInput(Len(encoded) - i))

\* the closures of Proof::try_from; i counts the bytes consumed, and a
\* closure returns Ok of the value read and the new i, or the error
next_byte(encoded, i) ==
    IF i < Len(encoded)
    THEN Ok([value |-> encoded[i + 1], i |-> i + 1])
    ELSE Err(NotEnoughInput(Len(encoded)))

\* n calls of next_byte: the n bytes from i, or the error of the call
\* that meets the end of the input
next_n_bytes(encoded, i, n) ==
    IF i + n <= Len(encoded)
    THEN Ok([value |-> SubSeq(encoded, i + 1, i + n), i |-> i + n])
    ELSE next_byte(encoded, Len(encoded))

next_u64(encoded, i) ==
    LET r == next_n_bytes(encoded, i, U64Bytes)
    IN  IF ~IsOk(r) THEN r
        ELSE Ok([value |-> from_be_bytes(r[2].value), i |-> r[2].i])

\* the 32 bytes of a hash are one symbol
next_hash(encoded, i) == next_byte(encoded, i)

next_frontier_node(encoded, i) ==
    LET tag == next_byte(encoded, i)
    IN  IF ~IsOk(tag) THEN tag
        ELSE IF tag[2].value[2] = 0
        THEN Ok([value |-> NodeWithoutSibling, i |-> tag[2].i])
        ELSE IF tag[2].value[2] \in {1, 2}
        THEN LET h == next_hash(encoded, tag[2].i)
             IN  IF ~IsOk(h) THEN h
                 ELSE Ok([value |-> IF tag[2].value[2] = 1
                                    THEN LeftChildWithSibling(h[2].value)
                                    ELSE RightChildWithSibling(h[2].value),
                          i |-> h[2].i])
        ELSE Err(InvalidProofNodeType(tag[2].value[2]))

\* the loop `for _ in 0..length { frontier.push(next_frontier_node) }`,
\* with `length` entries still to read and `frontier` read so far
RECURSIVE next_frontier(_, _, _, _)
next_frontier(encoded, i, length, frontier) ==
    IF length = 0 THEN Ok([value |-> frontier, i |-> i])
    ELSE LET node == next_frontier_node(encoded, i)
         IN  IF ~IsOk(node) THEN node
             ELSE next_frontier(encoded, node[2].i, length - 1,
                                Append(frontier, node[2].value))

\* TryFrom<&[u8]> for Proof; the bytes after the last frontier entry are
\* not looked at
Proof_try_from(encoded) ==
    IF Len(encoded) < U64Bytes THEN Err(NotEnoughInput(Len(encoded)))
    ELSE LET length == next_u64(encoded, 0)
         IN  IF ~IsOk(length) THEN length
    ELSE LET item == next_n_bytes(encoded, length[2].i, length[2].value)
         IN  IF ~IsOk(item) THEN item
    ELSE LET index == next_u64(encoded, item[2].i)
         IN  IF ~IsOk(index) THEN index
    ELSE LET flen == next_u64(encoded, index[2].i)
         IN  IF ~IsOk(flen) THEN flen
    ELSE LET frontier == next_frontier(encoded, flen[2].i, flen[2].value,
                                       <<>>)
         IN  IF ~IsOk(frontier) THEN frontier
    ELSE Ok([item |-> item[2].value, index |-> index[2].value,
             frontier |-> frontier[2].value])

\* a plausible slip: the tags of the two sibling entries exchanged
encode_proof_node_swapped(pf_node) ==
    IF pf_node[1] = "NodeWithoutSibling" THEN <<Byte(0)>>
    ELSE IF pf_node[1] = "LeftChildWithSibling"
    THEN <<Byte(2)>> \o as_bytes(pf_node[2])
    ELSE <<Byte(1)>> \o as_bytes(pf_node[2])

\* encode_proof_node
encode_proof_node(pf_node) ==
    IF pf_node[1] = "NodeWithoutSibling" THEN <<Byte(0)>>
    ELSE IF pf_node[1] = "LeftChildWithSibling"
    THEN <<Byte(1)>> \o as_bytes(pf_node[2])
    ELSE <<Byte(2)>> \o as_bytes(pf_node[2])

RECURSIVE encode_frontier(_)
encode_frontier(frontier) ==
    IF Len(frontier) = 0 THEN <<>>
    ELSE encode_proof_node(Head(frontier)) \o encode_frontier(Tail(frontier))

\* From<&Proof> for Vec<u8>
Proof_to_bytes(pf) ==
    to_be_bytes(Len(pf.item)) \o pf.item \o to_be_bytes(pf.index)
        \o to_be_bytes(Len(pf.frontier)) \o encode_frontier(pf.frontier)

(***************************************************************************)
(* merkle.rs                                                                *)
(***************************************************************************)
\* From<(Vec<lamport::PrivateKey>, usize)> for PrivateKey: the tree over the
\* encoded public keys; the fields are the tuple's .0, .1 and .2
PrivateKey_from(private_keys, current_index) ==
    [keys |-> private_keys,
     tree |-> Tree_new([i \in 1..Len(private_keys) |->
                            to_bytes(lamport_public_key(private_keys[i]))]),
     current_index |-> current_index]

\* merkle::PrivateKey::generate(n), the generator having drawn the Lamport
\* keys ids[1], .., ids[n]
merkle_generate(ids) ==
    PrivateKey_from([i \in 1..Len(ids) |-> lamport_generate(ids[i])], 0)

\* merkle::PrivateKey::public_key
merkle_public_key(K) == commitment(K.tree)

\* merkle::PrivateKey::current_index
current_index(K) == K.current_index

\* merkle::PrivateKey::inner_keys
inner_keys(K) == K.keys

Signature(lsig, lpk, proof) ==
    [lamport_signature |-> lsig, lamport_public_key |-> lpk, proof |-> proof]

\* merkle::PrivateKey::sign(&mut self, message): the key after the call and
\* what the call returns.  No statement of the function assigns self.2.
merkle_sign(K, message) ==
    LET index == K.current_index
    IN  IF index >= Len(K.keys)
        THEN [key |-> K, result |-> None]
        ELSE LET lamport_private_key == K.keys[index + 1]
                 lpk == lamport_public_key(lamport_private_key)
                 proof == Tree_prove(K.tree, to_bytes(lpk), index)
             IN  [key |-> K,
                  result |->
                    IF IsSome(proof)
                    THEN Some(Signature(
                            lamport_sign(lamport_private_key, message),
                            lpk, proof[2]))
                    ELSE proof]

\* merkle::PublicKey::verify
merkle_verify(P, message, signature) ==
    /\ Commitment_verify(P, signature.proof)
    /\ lamport_verify(signature.lamport_public_key, message,
                      signature.lamport_signature)

\* merkle::PublicKey::verify, how the call ends; `&&` does not evaluate its
\* right operand when the left one is false
merkle_verify_outcome(P, message, signature) ==
    LET c == Commitment_verify_outcome(P, signature.proof)
    IN  IF ~IsSome(c) THEN Panic
        ELSE IF ~c[2] THEN Some(FALSE)
        ELSE lamport_verify_outcome(signature.lamport_public_key, message,
                                    signature.lamport_signature)

\* From<PublicKey> for [u8; 40]: the root, then num_items big-endian
PublicKey_to_bytes(P) == as_bytes(P.root) \o to_be_bytes(P.num_items)

\* From<[u8; 40]> for PublicKey
PublicKey_from_bytes(value) ==
    [root |-> value[1],
     num_items |-> from_be_bytes(SubSeq(value, 2, 1 + U64Bytes))]

SigNotEnoughInput(n) == <<"SignatureDecodingError::NotEnoughInput", n>>
MerkleProofDecodingError(e) ==
    <<"SignatureDecodingError::MerkleProofDecodingError", e>>

\* From<Signature> for [u8; 8192]: the exposed chunks one after the other
RECURSIVE exposed_bytes(_)
exposed_bytes(chunks) ==
    IF Len(chunks) = 0 THEN <<>>
    ELSE Head(chunks) \o exposed_bytes(Tail(chunks))

\* lamport::Signature::from, read by chunks(32): one symbol a chunk
lamport_signature_from(bytes) == [i \in 1..Len(bytes) |-> <<bytes[i]>>]

\* From<&[u8; 16384]> for lamport::PublicKey
lamport_public_key_from(value) ==
    [left_hashes  |-> [i \in 1..NumBits |-> value[i]],
     right_hashes |-> [i \in 1..NumBits |-> value[NumBits + i]]]

\* From<&Signature> for Vec<u8>
Signature_to_bytes(sig) ==
    exposed_bytes(sig.lamport_signature) \o to_bytes(sig.lamport_public_key)
        \o Proof_to_bytes(sig.proof)

\* a loop of Signature::try_from over its closure next_byte: the n bytes
\* from i, or NotEnoughInput of the length of the whole input
sig_next_bytes(signature_bytes, i, n) ==
    IF i + n <= Len(signature_bytes)
    THEN Ok([value |-> SubSeq(signature_bytes, i + 1, i + n), i |-> i + n])
    ELSE Err(SigNotEnoughInput(Len(signature_bytes)))

\* TryFrom<&[u8]> for Signature
Signature_try_from(signature_bytes) ==
    LET lsig == sig_next_bytes(signature_bytes, 0, NumBits)
    IN  IF ~IsOk(lsig) THEN lsig
    ELSE LET lpk == sig_next_bytes(signature_bytes, lsig[2].i, 2 * NumBits)
         IN  IF ~IsOk(lpk) THEN lpk
    ELSE LET proof == Proof_try_from(SubSeq(signature_bytes, lpk[2].i + 1,
                                            Len(signature_bytes)))
         IN  IF ~IsOk(proof) THEN Err(MerkleProofDecodingError(proof[2]))
    ELSE Ok(Signature(lamport_signature_from(lsig[2].value),
                      lamport_public_key_from(lpk[2].value), proof[2]))

(***************************************************************************)
(* State.                                                                   *)
(***************************************************************************)
VARIABLES
    \* the many-time signer and the command line
    privk,      \* the merkle::PrivateKey held by the library's caller
    log,        \* the library sign calls made on privk: message and result
    keyFile,    \* the private-key file: the Lamport keys and the counter
    sigFile,    \* the signature file
    cliSigned,  \* runs of the sign command that wrote a signature
    cliOut,     \* how the last run of a command ended
    verdict,    \* the last call of merkle::PublicKey::verify
    pubFile,    \* the public-key file
    \* the Merkle harness
    hLeaves,    \* the leaves the tree was built from
    hTree,      \* Tree::new(hLeaves)
    hProve,     \* the last call of Tree::prove
    hCheck,     \* the last call of Commitment::verify
    \* verification of arbitrary input
    tCommit,    \* the commitment verify is called on
    tInput,     \* the proof, or the message and signature, it is called with
    tCall,      \* the call of the verify function and how it ended
    \* the Lamport harness
    lKey,       \* a lamport::PrivateKey
    lSig,       \* the call of lKey.sign
    lVer,       \* the call of lKey.public_key().verify
    \* the codecs
    cValue,     \* a proof, a many-time signature or a many-time public key
    cCall,      \* the last call of a decoder: its input and its result
    \* a run of Tree::new
    bLeaves,    \* the argument
    bLevels,    \* the local `levels`; bLevels[1] is the front
    bTree       \* the tree returned, None while the function runs

signerVars == <<privk, log, keyFile, sigFile, cliSigned, cliOut, verdict>>
harnessVars == <<hLeaves, hTree, hProve, hCheck>>
verifyVars == <<tCommit, tInput, tCall>>
lamportVars == <<lKey, lSig, lVer>>
codecVars == <<cValue, cCall>>
buildVars == <<bLeaves, bLevels, bTree>>
otherVars == <<pubFile, tCommit, tInput, tCall, lKey, lSig, lVer, cValue,
               cCall, bLeaves, bLevels, bTree>>
vars == <<privk, log, keyFile, sigFile, cliSigned, cliOut, verdict, pubFile,
          hLeaves, hTree, hProve, hCheck, tCommit, tInput, tCall, lKey, lSig,
          lVer, cValue, cCall, bLeaves, bLevels, bTree>>

NoVerdict == [kind |-> "none", k |-> 0, message |-> <<>>, sig |-> <<>>,
              ok |-> FALSE]
NoProve == [called |-> FALSE, item |-> <<>>, index |-> 0, res |-> None]
NoCheck == [edit |-> <<"none">>, pf |-> <<>>, ok |-> FALSE]
Absent == <<"absent">>
Created == <<"created">>
Written(bytes) == <<"written", bytes>>
NotRun == [cmd |-> "none", exit |-> 0, diag |-> FALSE, ran |-> FALSE]

SignerIdle ==
    /\ privk = <<>> /\ log = <<>> /\ keyFile = <<>> /\ sigFile = Absent
    /\ cliSigned = 0 /\ cliOut = NotRun /\ verdict = NoVerdict
    /\ pubFile = Absent

HarnessIdle ==
    /\ hLeaves = <<>> /\ hTree = <<>> /\ hProve = NoProve /\ hCheck = NoCheck

NoCall == [kind |-> "none", res |-> <<>>]
NoSign == [called |-> FALSE, message |-> <<>>, signature |-> <<>>]
NoVerify == [called |-> FALSE, message |-> <<>>, ok |-> FALSE]
NoDecode == [kind |-> "none", input |-> <<>>, res |-> <<>>]

VerifyIdle == tCommit = <<>> /\ tInput = <<>> /\ tCall = NoCall
LamportIdle == lKey = <<>> /\ lSig = NoSign /\ lVer = NoVerify
CodecIdle == cValue = <<>> /\ cCall = NoDecode
BuildIdle == bLeaves = <<>> /\ bLevels = <<>> /\ bTree = None

OtherIdle == VerifyIdle /\ LamportIdle /\ CodecIdle /\ BuildIdle

(***************************************************************************)
(* The many-time signer: generate(N), then sign and verify calls, and runs  *)
(* of the sign command on the key file that keygen wrote.                   *)
(***************************************************************************)
\* write_private_key: the N key records, then the counter
write_private_key(K) ==
    [keys |-> inner_keys(K), current_index |-> current_index(K)]

\* read_private_key: the records and the counter, through From
read_private_key(file) == PrivateKey_from(file.keys, file.current_index)

\* the bytes of a file
FileBytes(file) == IF file[1] = "written" THEN file[2] ELSE <<>>

\* write_all on a file opened with create(true).write(true): the bytes
\* replace the start of the file, which is not truncated
write_all(file, bytes) ==
    Written(bytes \o SubSeq(FileBytes(file), Len(bytes) + 1,
                            Len(FileBytes(file))))

\* write_public_key
write_public_key(P) == write_all(Absent, PublicKey_to_bytes(P))

\* read_public_key
read_public_key(file) == PublicKey_from_bytes(FileBytes(file))

\* read_signature, before the unwrap
read_signature(file) == Signature_try_from(FileBytes(file))

\* the keygen command with num_messages = N: generate(N), whose Lamport
\* keys are N distinct draws, and the key file written from it
Init ==
    /\ \E n \in 1..MaxKeys :
          /\ privk = merkle_generate([i \in 1..n |-> i])
          /\ keyFile = write_private_key(merkle_generate([i \in 1..n |-> i]))
          /\ pubFile = write_public_key(
                          merkle_public_key(
                              merkle_generate([i \in 1..n |-> i])))
    /\ log = <<>>
    /\ sigFile = Absent
    /\ cliSigned = 0
    /\ cliOut = NotRun
    /\ verdict = NoVerdict
    /\ HarnessIdle
    /\ OtherIdle

\* a library call privk.sign(message)
Sign(message) ==
    /\ Len(log) + cliSigned < MaxCalls
    /\ LET r == merkle_sign(privk, message)
       IN  /\ privk' = r.key
           /\ log' = Append(log, [message |-> message, result |-> r.result])
    /\ UNCHANGED <<keyFile, sigFile, cliSigned, cliOut, verdict>>
    /\ UNCHANGED <<harnessVars, otherVars>>

\* the Sign arm of main: read the key, open the signature file (created
\* when absent), sign; on Some write the signature and the key back
\* (exit 0), on None print the diagnostic and return Ok(()) (exit 0)
CliSign(message) ==
    /\ Len(log) + cliSigned < MaxCalls
    /\ LET K == read_private_key(keyFile)
           r == merkle_sign(K, message)
           opened == IF sigFile = Absent THEN Created ELSE sigFile
       IN  IF IsSome(r.result)
           THEN /\ sigFile' = write_all(opened,
                                       Signature_to_bytes(r.result[2]))
                /\ keyFile' = write_private_key(r.key)
                /\ cliSigned' = cliSigned + 1
                /\ cliOut' = [cmd |-> "sign", exit |-> 0, diag |-> FALSE,
                              ran |-> TRUE]
           ELSE IF r.result = None
           THEN /\ sigFile' = opened
                /\ cliOut' = [cmd |-> "sign", exit |-> 0, diag |-> TRUE,
                              ran |-> TRUE]
                /\ UNCHANGED <<keyFile, cliSigned>>
           ELSE /\ sigFile' = opened
                /\ cliOut' = [cmd |-> "sign", exit |-> 101, diag |-> FALSE,
                              ran |-> TRUE]
                /\ UNCHANGED <<keyFile, cliSigned>>
    /\ UNCHANGED <<privk, log, verdict>>
    /\ UNCHANGED <<harnessVars, otherVars>>

\* public_key().verify(m, sig) on the k-th signature returned by sign
VerifySigned(k, m) ==
    /\ k \in 1..Len(log)
    /\ IsSome(log[k].result)
    /\ verdict' = [kind |-> IF m = log[k].message THEN "signed" ELSE "other",
                   k |-> k, message |-> m, sig |-> log[k].result[2],
                   ok |-> merkle_verify(merkle_public_key(privk), m,
                                        log[k].result[2])]
    /\ UNCHANGED <<privk, log, keyFile, sigFile, cliSigned, cliOut>>
    /\ UNCHANGED <<harnessVars, otherVars>>

\* verify on a signature put together by someone who holds no secret of the
\* key: the proof of the k-th signature, with the public key and the
\* signature on m of a Lamport key pair of their own (key number 0)
VerifyForged(k, m) ==
    /\ k \in 1..Len(log)
    /\ IsSome(log[k].result)
    /\ LET own == lamport_generate(0)
           sig == Signature(lamport_sign(own, m), lamport_public_key(own),
                            log[k].result[2].proof)
       IN  verdict' = [kind |-> "forged", k |-> k, message |-> m, sig |-> sig,
                       ok |-> merkle_verify(merkle_public_key(privk), m, sig)]
    /\ UNCHANGED <<privk, log, keyFile, sigFile, cliSigned, cliOut>>
    /\ UNCHANGED <<harnessVars, otherVars>>

\* verify on the k-th signature with its Lamport public key replaced by the
\* public key of slot j of the same many-time key
VerifySubstituted(k, j) ==
    /\ k \in 1..Len(log)
    /\ IsSome(log[k].result)
    /\ j \in 1..Len(privk.keys)
    /\ LET s == log[k].result[2]
           sig == Signature(s.lamport_signature,
                            lamport_public_key(privk.keys[j]), s.proof)
       IN  verdict' = [kind |-> "substituted", k |-> k,
                       message |-> log[k].message, sig |-> sig,
                       ok |-> merkle_verify(merkle_public_key(privk),
                                            log[k].message, sig)]
    /\ UNCHANGED <<privk, log, keyFile, sigFile, cliSigned, cliOut>>
    /\ UNCHANGED <<harnessVars, otherVars>>

Next ==
    \/ \E m \in Messages : Sign(m)
    \/ \E m \in Messages : CliSign(m)
    \/ \E k \in 1..MaxCalls, m \in Messages : VerifySigned(k, m)
    \/ \E k \in 1..MaxCalls, m \in Messages : VerifyForged(k, m)
    \/ \E k \in 1..MaxCalls, j \in 1..MaxKeys : VerifySubstituted(k, j)

Spec == Init /\ [][Next]_vars

(***************************************************************************)
(* The command line on its files: a key file holding N Lamport keys and a   *)
(* counter, the public-key file of the same keys, and runs of the sign and  *)
(* verify commands.                                                         *)
(***************************************************************************)
\* the files of a key of N Lamport keys whose counter is c, in the format
\* write_private_key and write_public_key write; c = N is the exhausted key
CliInit ==
    /\ \E n \in 1..MaxKeys, c \in 0..MaxKeys :
          /\ c <= n
          /\ keyFile = write_private_key(
                          PrivateKey_from(
                              [i \in 1..n |-> lamport_generate(i)], c))
          /\ pubFile = write_public_key(
                          merkle_public_key(
                              merkle_generate([i \in 1..n |-> i])))
    /\ privk = <<>>
    /\ log = <<>>
    /\ sigFile = Absent
    /\ cliSigned = 0
    /\ cliOut = NotRun
    /\ verdict = NoVerdict
    /\ HarnessIdle
    /\ OtherIdle

\* the Verify arm of main: read the public key, read and decode the
\* signature (an absent file is an I/O error, exit 1; a decoding error
\* panics in unwrap, exit 101), print the validity (exit 0)
CliVerify(message) ==
    /\ LET decoded == read_signature(sigFile)
       IN  IF sigFile = Absent
           THEN /\ cliOut' = [cmd |-> "verify", exit |-> 1, diag |-> TRUE,
                              ran |-> TRUE]
                /\ verdict' = NoVerdict
           ELSE IF ~IsOk(decoded)
           THEN /\ cliOut' = [cmd |-> "verify", exit |-> 101, diag |-> TRUE,
                              ran |-> TRUE]
                /\ verdict' = NoVerdict
           ELSE /\ cliOut' = [cmd |-> "verify", exit |-> 0, diag |-> FALSE,
                              ran |-> TRUE]
                /\ verdict' = [kind |-> "cli", k |-> 0, message |-> message,
                               sig |-> decoded[2],
                               ok |-> merkle_verify(read_public_key(pubFile),
                                                    message, decoded[2])]
    /\ UNCHANGED <<privk, log, keyFile, sigFile, cliSigned>>
    /\ UNCHANGED <<harnessVars, otherVars>>

CliNext ==
    \/ \E m \in Messages : CliSign(m)
    \/ \E m \in Messages : CliVerify(m)

CliSpec == CliInit /\ [][CliNext]_vars

(***************************************************************************)
(* The Merkle harness: a tree built by Tree::new over 1 .. MaxLeaves        *)
(* leaves, calls of Tree::prove, and calls of Commitment::verify on the     *)
(* proof as produced and on proofs altered by the party presenting them.    *)
(***************************************************************************)
\* the leaves: two one-byte items and the 64-byte item made of their two
\* digests, whose digest is hash_two_hashes of the two
Items ==
    {<<Byte(1)>>, <<Byte(2)>>,
     as_bytes(hash(<<Byte(1)>>)) \o as_bytes(hash(<<Byte(2)>>))}

LeafSeqs == UNION {[1..n -> Items] : n \in 1..MaxLeaves}

\* the digests an altered frontier entry may carry: every node of the tree
\* and one digest that is not in it
HashPool ==
    {hTree.root, hash(<<Byte(0)>>)}
        \cup UNION {{hTree.levels[d][i] : i \in 1..Len(hTree.levels[d])} :
                        d \in 1..Len(hTree.levels)}

Entries ==
    {NodeWithoutSibling}
        \cup {LeftChildWithSibling(h) : h \in HashPool}
        \cup {RightChildWithSibling(h) : h \in HashPool}

RemoveAt(seq, j) ==
    [i \in 1..(Len(seq) - 1) |-> IF i < j THEN seq[i] ELSE seq[i + 1]]

MerkleInit ==
    /\ hLeaves \in LeafSeqs
    /\ hTree = Tree_new(hLeaves)
    /\ hProve = NoProve
    /\ hCheck = NoCheck
    /\ SignerIdle
    /\ OtherIdle

\* tree.prove(item, index): the harness makes one call per tree
Prove(item, index) ==
    /\ ~hProve.called
    /\ hProve' = [called |-> TRUE, item |-> item, index |-> index,
                  res |-> Tree_prove(hTree, item, index)]
    /\ hCheck' = NoCheck
    /\ UNCHANGED <<hLeaves, hTree>>
    /\ UNCHANGED <<signerVars, otherVars>>

\* tree.commitment().verify(pf), recorded with how pf was made: the
\* harness makes one call per proof
Check(edit, pf) ==
    /\ hCheck = NoCheck
    /\ hCheck' = [edit |-> edit, pf |-> pf,
                  ok |-> Commitment_verify(commitment(hTree), pf)]
    /\ UNCHANGED <<hLeaves, hTree, hProve>>
    /\ UNCHANGED <<signerVars, otherVars>>

\* verify on the proof that prove returned
VerifyProduced ==
    /\ IsSome(hProve.res)
    /\ Check(<<"produced">>, hProve.res[2])

\* verify with frontier entry j replaced by another entry e
VerifyReplaced(j, e) ==
    /\ IsSome(hProve.res)
    /\ j \in 1..Len(hProve.res[2].frontier)
    /\ e # hProve.res[2].frontier[j]
    /\ Check(<<"replaced", j, e>>,
             [hProve.res[2] EXCEPT !.frontier[j] = e])

\* verify with the entry e appended to the frontier
VerifyAppended(e) ==
    /\ IsSome(hProve.res)
    /\ Check(<<"appended", e>>,
             [hProve.res[2] EXCEPT !.frontier = Append(@, e)])

\* verify with frontier entry j removed
VerifyRemoved(j) ==
    /\ IsSome(hProve.res)
    /\ j \in 1..Len(hProve.res[2].frontier)
    /\ Check(<<"removed", j>>,
             [hProve.res[2] EXCEPT !.frontier = RemoveAt(@, j)])

\* verify with the index replaced by i
VerifyReindexed(i) ==
    /\ IsSome(hProve.res)
    /\ i # hProve.res[2].index
    /\ Check(<<"reindexed", i>>, [hProve.res[2] EXCEPT !.index = i])

\* verify with the item replaced by another item
VerifyReitemed(item) ==
    /\ IsSome(hProve.res)
    /\ item # hProve.res[2].item
    /\ Check(<<"reitemed", item>>, [hProve.res[2] EXCEPT !.item = item])

MerkleNext ==
    \/ \E item \in Items, index \in 0..MaxLeaves : Prove(item, index)
    \/ VerifyProduced
    \/ \E j \in 1..MaxLeaves, e \in Entries : VerifyReplaced(j, e)
    \/ \E e \in Entries : VerifyAppended(e)
    \/ \E j \in 1..MaxLeaves : VerifyRemoved(j)
    \/ \E i \in 0..(MaxLeaves + 1) : VerifyReindexed(i)
    \/ \E item \in Items : VerifyReitemed(item)

MerkleSpec == MerkleInit /\ [][MerkleNext]_vars

(***************************************************************************)
(* Verification of arbitrary input: a commitment with any root and any      *)
(* num_items (0 included), proofs with any item, index and frontier, and    *)
(* signatures with any Lamport public key and any exposed chunks.           *)
(***************************************************************************)
ArbKey == lamport_generate(0)

ArbItems == Items \cup {to_bytes(lamport_public_key(ArbKey))}

ArbHashes == {hash(<<Byte(1)>>), hash(<<Byte(2)>>)}

ArbRoots ==
    {hash(<<Byte(1)>>),
     hash_two_hashes(hash(<<Byte(1)>>), hash(<<Byte(2)>>)),
     hash(to_bytes(lamport_public_key(ArbKey)))}

ArbCommitments == [root : ArbRoots, num_items : 0..MaxLeaves]

ArbEntries ==
    {NodeWithoutSibling}
        \cup {LeftChildWithSibling(h) : h \in ArbHashes}
        \cup {RightChildWithSibling(h) : h \in ArbHashes}

ArbFrontiers == UNION {[1..n -> ArbEntries] : n \in 0..MaxFrontier}

ArbProofs ==
    [item : ArbItems, index : 0..(MaxLeaves + 1), frontier : ArbFrontiers]

\* the proofs put into a signature: at most one frontier entry
ShortProofs == {pf \in ArbProofs : Len(pf.frontier) <= 1 /\ pf.index <= 1}

\* Lamport public keys: one derived from a private key, one of arbitrary
\* bytes
ArbPublicKeys ==
    {lamport_public_key(ArbKey),
     [left_hashes  |-> [i \in 1..NumBits |-> hash(<<Byte(0)>>)],
      right_hashes |-> [i \in 1..NumBits |-> hash(<<Byte(0)>>)]]}

\* Lamport signatures: the ones the private key makes, and arbitrary bytes
ArbSignatures ==
    {lamport_sign(ArbKey, m) : m \in Messages}
        \cup {[i \in 1..NumBits |-> <<Byte(0)>>]}

\* what verify is called on: a proof, or a message and a signature
ArbInputs ==
    {<<"proof", pf>> : pf \in ArbProofs}
        \cup {<<"signature", m, Signature(lsig, lpk, pf)>> :
                 m \in Messages, lsig \in ArbSignatures,
                 lpk \in ArbPublicKeys, pf \in ShortProofs}

VerifyInit ==
    /\ tCommit \in ArbCommitments
    /\ tInput \in ArbInputs
    /\ tCall = NoCall
    /\ SignerIdle /\ HarnessIdle /\ LamportIdle /\ CodecIdle /\ BuildIdle

\* tCommit.verify(pf)
VerifyAnyProof ==
    /\ tCall = NoCall
    /\ tInput[1] = "proof"
    /\ tCall' = [kind |-> "Commitment::verify",
                 res |-> Commitment_verify_outcome(tCommit, tInput[2])]
    /\ UNCHANGED <<tCommit, tInput, pubFile>>
    /\ UNCHANGED <<signerVars, harnessVars, lamportVars, codecVars, buildVars>>

\* PublicKey(tCommit).verify(message, signature)
VerifyAnySignature ==
    /\ tCall = NoCall
    /\ tInput[1] = "signature"
    /\ tCall' = [kind |-> "PublicKey::verify",
                 res |-> merkle_verify_outcome(tCommit, tInput[2], tInput[3])]
    /\ UNCHANGED <<tCommit, tInput, pubFile>>
    /\ UNCHANGED <<signerVars, harnessVars, lamportVars, codecVars, buildVars>>

VerifyNext == VerifyAnyProof \/ VerifyAnySignature

VerifySpec == VerifyInit /\ [][VerifyNext]_vars

(***************************************************************************)
(* The codecs: a proof, a many-time signature or a many-time public key is  *)
(* encoded, and the decoder is called on the encoding, on a strict prefix   *)
(* of it, on the encoding followed by one more byte, and on the encoding    *)
(* with the tag of a frontier entry replaced by 3.                          *)
(***************************************************************************)
\* items whose bytes read like lengths and tags
CodecItems == {<<>>, <<Byte(1)>>, <<Byte(0), Byte(3)>>}

\* 258 has two non-zero bytes
CodecIndexes == {0, 1, 258}

CodecProofs ==
    [item : CodecItems, index : CodecIndexes, frontier : ArbFrontiers]

CodecSignatures ==
    [lamport_signature : ArbSignatures,
     lamport_public_key : ArbPublicKeys,
     proof : {pf \in CodecProofs : Len(pf.frontier) <= 1}]

CodecValues ==
    {<<"proof", pf>> : pf \in CodecProofs}
        \cup {<<"signature", sig>> : sig \in CodecSignatures}
        \cup {<<"public_key", P>> : P \in ArbCommitments}

\* the encoder of the type of v
Encode(v) ==
    IF v[1] = "proof" THEN Proof_to_bytes(v[2])
    ELSE IF v[1] = "signature" THEN Signature_to_bytes(v[2])
    ELSE PublicKey_to_bytes(v[2])

\* the decoder of the type `type`
Decode(type, bytes) ==
    IF type = "proof" THEN Proof_try_from(bytes)
    ELSE IF type = "signature" THEN Signature_try_from(bytes)
    ELSE PublicKey_from_bytes(bytes)

\* the proof inside v, and the bytes of Encode(v) before it
ProofOf(v) == IF v[1] = "proof" THEN v[2] ELSE v[2].proof
ProofOffset(v) == IF v[1] = "proof" THEN 0 ELSE 3 * NumBits

\* the position in Encode(v) of the tag of frontier entry j
TagPosition(v, j) ==
    ProofOffset(v) + U64Bytes + Len(ProofOf(v).item) + U64Bytes + U64Bytes
        + Len(encode_frontier(SubSeq(ProofOf(v).frontier, 1, j - 1))) + 1

CodecInit ==
    /\ cValue \in CodecValues
    /\ cCall = NoDecode
    /\ SignerIdle /\ HarnessIdle /\ VerifyIdle /\ LamportIdle /\ BuildIdle

\* the decoder of the type of cValue called on bytes
DecodeCall(kind, bytes) ==
    /\ cCall = NoDecode
    /\ cCall' = [kind |-> kind, input |-> bytes,
                 res |-> Decode(cValue[1], bytes)]
    /\ UNCHANGED <<cValue, pubFile>>
    /\ UNCHANGED <<signerVars, harnessVars, verifyVars, lamportVars, buildVars>>

DecodeEncoded ==
    /\ cCall = NoDecode
    /\ DecodeCall("encoded", Encode(cValue))

DecodePrefix(k) ==
    /\ cCall = NoDecode
    /\ cValue[1] # "public_key"
    /\ k < Len(Encode(cValue))
    /\ DecodeCall("prefix", SubSeq(Encode(cValue), 1, k))

DecodeExtended(b) ==
    /\ cCall = NoDecode
    /\ cValue[1] # "public_key"
    /\ DecodeCall("extended", Encode(cValue) \o <<Byte(b)>>)

DecodeRetagged(j) ==
    /\ cCall = NoDecode
    /\ cValue[1] # "public_key"
    /\ j \in 1..Len(ProofOf(cValue).frontier)
    /\ DecodeCall("retagged",
                  [Encode(cValue) EXCEPT ![TagPosition(cValue, j)] = Byte(3)])

\* the longest encoding of the model
MaxEncoded ==
    3 * NumBits + 3 * U64Bytes + 2 * NumBits + 2 * MaxFrontier

CodecNext ==
    \/ DecodeEncoded
    \/ \E k \in 0..MaxEncoded : DecodePrefix(k)
    \/ \E b \in 0..1 : DecodeExtended(b)
    \/ \E j \in 1..MaxFrontier : DecodeRetagged(j)

CodecSpec == CodecInit /\ [][CodecNext]_vars

(***************************************************************************)
(* The Lamport harness: a private key of arbitrary bytes, one call of sign  *)
(* and one call of verify on the signature it returned.                     *)
(***************************************************************************)
\* the chunks of a private key are drawn from two blocks, so that some keys
\* have the same bytes on both sides of a bit
LamportChunks == {<<Block(<<0, 0, 1>>)>>, <<Block(<<0, 1, 1>>)>>}

\* From<&[u8; 16384]> for PrivateKey
LamportKeys ==
    [left : [1..NumBits -> LamportChunks],
     right : [1..NumBits -> LamportChunks]]

\* one message for every value of the NumBits digest bits that are signed
LamportMessages == {<<Byte(n)>> : n \in 0..(Pow2(NumBits) - 1)}

LamportInit ==
    /\ lKey \in LamportKeys
    /\ lSig = NoSign
    /\ lVer = NoVerify
    /\ SignerIdle /\ HarnessIdle /\ VerifyIdle /\ CodecIdle /\ BuildIdle

\* lKey.sign(message)
LamportSign(message) ==
    /\ ~lSig.called
    /\ lSig' = [called |-> TRUE, message |-> message,
                signature |-> lamport_sign(lKey, message)]
    /\ UNCHANGED <<lKey, lVer, pubFile>>
    /\ UNCHANGED <<signerVars, harnessVars, verifyVars, codecVars, buildVars>>

\* lKey.public_key().verify(message, the signature sign returned)
LamportVerify(message) ==
    /\ lSig.called
    /\ ~lVer.called
    /\ lVer' = [called |-> TRUE, message |-> message,
                ok |-> lamport_verify(lamport_public_key(lKey), message,
                                      lSig.signature)]
    /\ UNCHANGED <<lKey, lSig, pubFile>>
    /\ UNCHANGED <<signerVars, harnessVars, verifyVars, codecVars, buildVars>>

LamportNext ==
    \/ \E m \in LamportMessages : LamportSign(m)
    \/ \E m \in LamportMessages : LamportVerify(m)

LamportSpec == LamportInit /\ [][LamportNext]_vars

(***************************************************************************)
(* A run of Tree::new, statement by statement: the leaves are hashed into   *)
(* the first level, then the loop either returns or pushes one more level.  *)
(* The run is followed while `levels` holds at most MaxLevels levels.       *)
(***************************************************************************)
\* the arguments: 0 .. MaxLeaves items, and the encoded public keys that
\* generate(n) passes for n in 0 .. MaxKeys
BuildInputs ==
    UNION {[1..n -> Items] : n \in 0..MaxLeaves}
        \cup {[i \in 1..n |-> to_bytes(lamport_public_key(lamport_generate(i)))] :
                 n \in 0..MaxKeys}

BuildInit ==
    /\ bLeaves \in BuildInputs
    /\ bLevels = <<>>
    /\ bTree = None
    /\ SignerIdle /\ HarnessIdle /\ VerifyIdle /\ LamportIdle /\ CodecIdle

\* levels.push_front(leaves.map(blake3::hash).collect()), and the return
\* for one leaf
BuildCollect ==
    /\ bLevels = <<>>
    /\ bTree = None
    /\ bLevels' = <<[i \in 1..Len(bLeaves) |-> hash(bLeaves[i])]>>
    /\ bTree' = IF Len(bLeaves) = 1
                THEN Some([root |-> hash(bLeaves[1]), levels |-> <<>>])
                ELSE None
    /\ UNCHANGED <<bLeaves, pubFile>>
    /\ UNCHANGED <<signerVars, harnessVars, verifyVars, lamportVars, codecVars>>

\* a plausible slip: the new level is pushed at the back
BuildIteratePushBack ==
    /\ bLevels # <<>>
    /\ bTree = None
    /\ Len(bLevels) < MaxLevels
    /\ IF Len(bLevels[1]) = 2
       THEN /\ bTree' = Some([root |-> hash_two_hashes(bLevels[1][1],
                                                       bLevels[1][2]),
                              levels |-> bLevels])
            /\ UNCHANGED bLevels
       ELSE /\ bLevels' = bLevels \o <<NextLevel(bLevels[1])>>
            /\ UNCHANGED bTree
    /\ UNCHANGED <<bLeaves, pubFile>>
    /\ UNCHANGED <<signerVars, harnessVars, verifyVars, lamportVars, codecVars>>

\* one iteration of the loop: return when the top level has two nodes,
\* else push the next level at the front
BuildIterate ==
    /\ bLevels # <<>>
    /\ bTree = None
    /\ Len(bLevels) < MaxLevels
    /\ IF Len(bLevels[1]) = 2
       THEN /\ bTree' = Some([root |-> hash_two_hashes(bLevels[1][1],
                                                       bLevels[1][2]),
                              levels |-> bLevels])
            /\ UNCHANGED bLevels
       ELSE /\ bLevels' = <<NextLevel(bLevels[1])>> \o bLevels
            /\ UNCHANGED bTree
    /\ UNCHANGED <<bLeaves, pubFile>>
    /\ UNCHANGED <<signerVars, harnessVars, verifyVars, lamportVars, codecVars>>

BuildNext == BuildCollect \/ BuildIterate

\* the function runs on until it returns
BuildSpec == BuildInit /\ [][BuildNext]_vars /\ WF_vars(BuildNext)

(***************************************************************************)
(* Properties of the many-time signer (Spec).                               *)
(***************************************************************************)
\* the capacity N of the key
Capacity == Len(inner_keys(privk))

\* the sign calls on privk that returned Some
Signed == {k \in 1..Len(log) : IsSome(log[k].result)}

\* C1: after any sequence of sign calls on a key from generate(N), of
\* which k returned Some, current_index() is k; and the counter in the key
\* file is the number of runs of the sign command that wrote a signature.
C1_CounterCountsSigns ==
    /\ current_index(privk) = Cardinality(Signed)
    /\ keyFile.current_index = cliSigned

\* C2: no two successful sign calls on one key use the same Lamport secret:
\* their proofs carry different indices and their embedded Lamport public
\* keys differ (the Lamport keys of the key are pairwise distinct).
C2_AtMostOneUse ==
    \A i \in Signed, j \in Signed :
        i < j =>
            /\ log[i].result[2].proof.index # log[j].result[2].proof.index
            /\ log[i].result[2].lamport_public_key
                   # log[j].result[2].lamport_public_key

\* C3: the first N sign calls return Some, every later one returns None,
\* and the counter never exceeds N.
C3_Exhaustion ==
    /\ \A k \in 1..Len(log) :
          IF k <= Capacity THEN IsSome(log[k].result)
                           ELSE log[k].result = None
    /\ current_index(privk) <= Capacity

\* C4: verify returns true only if the item of the proof is the encoding of
\* the Lamport public key embedded in the signature.
C4_VerifyBindsKey ==
    (verdict.kind # "none" /\ verdict.ok) =>
        verdict.sig.proof.item = to_bytes(verdict.sig.lamport_public_key)

\* C6: for every k in 1 .. N the k-th sign call returns Some, and the
\* signature verifies against public_key() for the message signed.
C6_RoundTrip ==
    /\ \A k \in 1..Len(log) :
          k <= Capacity =>
              /\ IsSome(log[k].result)
              /\ merkle_verify(merkle_public_key(privk), log[k].message,
                               log[k].result[2])
    /\ (verdict.kind = "signed" /\ verdict.k <= Capacity) => verdict.ok

\* N = 2 calls with two different messages, the second signature verified
C6_Witness ==
    /\ Capacity >= 2
    /\ Len(log) >= Capacity
    /\ log[1].message # log[2].message
    /\ verdict.kind = "signed" /\ verdict.k = Capacity /\ verdict.ok

(***************************************************************************)
(* Properties of the command line (CliSpec).                                *)
(***************************************************************************)
\* C15: a run of the sign command on an exhausted key file (counter >= N)
\* prints a diagnostic, ends with a non-zero exit status, does not create
\* or write the signature file and does not rewrite the key file.
C15_ExhaustedSign ==
    (/\ cliOut.cmd = "sign"
     /\ keyFile.current_index >= Len(keyFile.keys)) =>
        /\ cliOut.diag
        /\ cliOut.exit # 0
        /\ sigFile = Absent
        /\ cliSigned = 0

(***************************************************************************)
(* Properties of the Merkle tree (MerkleSpec).                              *)
(***************************************************************************)
\* the proof prove returned verifies against the commitment
BaseVerifies ==
    /\ IsSome(hProve.res)
    /\ Commitment_verify(commitment(hTree), hProve.res[2])

\* C5: for every tree over n >= 1 leaves L and every i < n, prove(L[i], i)
\* returns Some(proof), and commitment().verify(proof) is true.
C5_InclusionSound ==
    (/\ hProve.called
     /\ hProve.index < Len(hLeaves)
     /\ hProve.item = hLeaves[hProve.index + 1]) =>
        /\ IsSome(hProve.res)
        /\ hCheck.edit[1] = "produced" => hCheck.ok

\* C7: prove(item, index) returns None whenever index >= num_items or
\* H(item) differs from the leaf hash at that index.
C7_IndexDiscipline ==
    (/\ hProve.called
     /\ \/ hProve.index >= Len(hLeaves)
        \/ hash(hProve.item) # hash(hLeaves[hProve.index + 1])) =>
        hProve.res = None

\* C8: a proof that verifies no longer verifies once entries are removed
\* from or appended to its frontier.
C8_FrontierLength ==
    (hCheck.edit[1] \in {"appended", "removed"} /\ BaseVerifies) =>
        ~hCheck.ok

\* C9: a proof that prove returned and that verifies no longer verifies
\* once exactly one frontier entry is replaced by a different entry.
C9_SingleEntryAltered ==
    (hCheck.edit[1] = "replaced" /\ BaseVerifies) => ~hCheck.ok

\* a frontier entry of an odd-width bottom level replaced by
\* NodeWithoutSibling, which the check of that entry lets pass
C9_Witness ==
    /\ hCheck.edit[1] = "replaced"
    /\ BaseVerifies
    /\ Len(hLeaves) = 3
    /\ hCheck.edit[2] = 1
    /\ hCheck.edit[3] = NodeWithoutSibling
    /\ ~hCheck.ok

\* C10: verify returns true only if the index of the proof is below
\* num_items; with num_items = 1 and an empty frontier it returns true
\* exactly if the index is 0 and H(item) is the root.
C10_IndexEnforced ==
    hCheck.edit[1] # "none" =>
        /\ hCheck.ok => hCheck.pf.index < commitment(hTree).num_items
        /\ (commitment(hTree).num_items = 1 /\ hCheck.pf.frontier = <<>>) =>
              (hCheck.ok <=> (/\ hCheck.pf.index = 0
                              /\ hash(hCheck.pf.item) = hTree.root))

\* levels[d] of the tree counted from the leaves: level 0 is the last
\* element of the VecDeque
LevelUp(k) == hTree.levels[Len(hTree.levels) - k]

\* C17: Tree::new builds the promoted-odd-child shape.  Level 0 is
\* [H(leaf_i)]; from a level of length n > 2 the next level has ceil(n/2)
\* entries, entry j the hash of the pair (2j, 2j+1) of the level for each
\* full pair and, when n is odd, the last entry the unpaired last node
\* unchanged; the root is the hash of the two nodes of the top stored
\* level; for one leaf, levels is empty and the root is H(leaf0); and
\* commitment().num_items is the number of leaves.
C17_TreeShape ==
    hTree # <<>> =>
        /\ commitment(hTree).num_items = Len(hLeaves)
        /\ IF Len(hLeaves) = 1
           THEN hTree.levels = <<>> /\ hTree.root = hash(hLeaves[1])
           ELSE /\ Len(hTree.levels) >= 1
                /\ LevelUp(0) = [i \in 1..Len(hLeaves) |-> hash(hLeaves[i])]
                /\ Len(hTree.levels[1]) = 2
                /\ hTree.root = hash_two_hashes(hTree.levels[1][1],
                                                hTree.levels[1][2])
                /\ \A k \in 0..(Len(hTree.levels) - 2) :
                      LET n == Len(LevelUp(k))
                      IN  /\ n > 2
                          /\ Len(LevelUp(k + 1)) = (n + 1) \div 2
                          /\ \A j \in 0..((n \div 2) - 1) :
                                LevelUp(k + 1)[j + 1] =
                                    hash_two_hashes(LevelUp(k)[2 * j + 1],
                                                    LevelUp(k)[2 * j + 2])
                          /\ n % 2 = 1 =>
                                LevelUp(k + 1)[(n + 1) \div 2] = LevelUp(k)[n]

\* three leaves: the third leaf hash is promoted unchanged
C17_Witness ==
    /\ Len(hLeaves) = 3
    /\ Len(hTree.levels) = 2
    /\ hTree.levels[1][2] = hash(hLeaves[3])

(***************************************************************************)
(* Properties of verification on arbitrary input (VerifySpec).              *)
(***************************************************************************)
\* C11: for every commitment (num_items 0 included), every proof and every
\* Lamport public key, message and signature, Commitment::verify and
\* merkle::PublicKey::verify return a boolean and never panic.
C11_VerifyTotal ==
    tCall.kind # "none" => tCall.res \in {Some(TRUE), Some(FALSE)}

\* a RightChildWithSibling entry met at position 0, where `current_index -
\* 1` would go below zero, with num_items = 0: verify returns false
C11_Witness ==
    /\ tCall.kind = "Commitment::verify"
    /\ tCommit.num_items = 0
    /\ tInput[2].index = 0
    /\ Len(tInput[2].frontier) = MaxFrontier
    /\ tInput[2].frontier[1][1] = "LeftChildWithSibling"
    /\ tInput[2].frontier[2][1] = "RightChildWithSibling"
    /\ tCall.res = Some(FALSE)

(***************************************************************************)
(* Properties of the codecs (CodecSpec).                                    *)
(***************************************************************************)
\* C12: decoding the encoding of a proof or of a many-time signature
\* returns Ok of the same value, and decoding the 40-byte encoding of a
\* many-time public key (root, then num_items big-endian) returns the same
\* pair.
C12_CodecRoundTrip ==
    cCall.kind = "encoded" =>
        IF cValue[1] = "public_key" THEN cCall.res = cValue[2]
        ELSE cCall.res = Ok(cValue[2])

\* a signature whose proof has a sibling entry and the two-byte index
C12_Witness ==
    /\ cCall.kind = "encoded"
    /\ cValue[1] = "signature"
    /\ cValue[2].proof.index = 258
    /\ Len(cValue[2].proof.frontier) = 1
    /\ cValue[2].proof.frontier[1][1] = "RightChildWithSibling"
    /\ cCall.res = Ok(cValue[2])

\* C13 as stated: decoding a strict prefix b of the encoding of a proof or
\* of a many-time signature fails with the NotEnoughInput error of the
\* decoder called, its payload the length of b.
C13_TruncationPlain ==
    cCall.kind = "prefix" =>
        IF cValue[1] = "proof"
        THEN cCall.res = Err(NotEnoughInput(Len(cCall.input)))
        ELSE cCall.res = Err(SigNotEnoughInput(Len(cCall.input)))

\* C13: decoding a strict prefix b of the encoding of a proof fails with
\* NotEnoughInput(len b); decoding a strict prefix b of the encoding of a
\* many-time signature fails with NotEnoughInput(len b) when b ends inside
\* the Lamport signature or public key, and otherwise with
\* MerkleProofDecodingError(NotEnoughInput(n)), n the length of the part of
\* b after the Lamport signature and public key.
C13_Truncation ==
    cCall.kind = "prefix" =>
        IF cValue[1] = "proof"
        THEN cCall.res = Err(NotEnoughInput(Len(cCall.input)))
        ELSE IF Len(cCall.input) < 3 * NumBits
        THEN cCall.res = Err(SigNotEnoughInput(Len(cCall.input)))
        ELSE cCall.res =
                Err(MerkleProofDecodingError(
                        NotEnoughInput(Len(cCall.input) - 3 * NumBits)))

\* a signature cut between the tag and the hash of its frontier entry
C13_Witness ==
    /\ cCall.kind = "prefix"
    /\ cValue[1] = "signature"
    /\ Len(cValue[2].proof.frontier) = 1
    /\ cValue[2].proof.frontier[1][1] = "LeftChildWithSibling"
    /\ Len(cCall.input) = Len(Encode(cValue)) - 1
    /\ cCall.res = Err(MerkleProofDecodingError(
                          NotEnoughInput(Len(cCall.input) - 3 * NumBits)))

\* C18: whenever Proof::try_from(b) or Signature::try_from(b) returns
\* Ok(x), the encoding of x is b; input with bytes left over after the last
\* frontier entry is not decoded successfully.
C18_CanonicalDecoding ==
    (cCall.kind # "none" /\ cValue[1] # "public_key" /\ IsOk(cCall.res)) =>
        Encode(<<cValue[1], cCall.res[2]>>) = cCall.input

\* the locals of Commitment::verify when it comes to frontier entry k
VerifyBefore(c, pf, k) ==
    VerifyLoop(VerifyStart(c, pf), SubSeq(pf.frontier, 1, k - 1), 1)

\* C16: in Commitment::verify a NodeWithoutSibling entry met at position p
\* of a level of width w is accepted only if p = w and w is odd, and verify
\* returns false if either fails; when accepted, the running hash is
\* unchanged and p becomes p / 2.
C16_NodeWithoutSibling ==
    tCall.kind = "Commitment::verify" =>
        \A k \in 1..Len(tInput[2].frontier) :
            LET st == VerifyBefore(tCommit, tInput[2], k)
                next == VerifyBefore(tCommit, tInput[2], k + 1)
            IN  (/\ tInput[2].frontier[k][1] = "NodeWithoutSibling"
                 /\ ~st.rejected) =>
                    IF st.current_index = st.width /\ st.width % 2 = 1
                    THEN /\ ~next.rejected
                         /\ next.current_hash = st.current_hash
                         /\ next.current_index = st.current_index \div 2
                    ELSE tCall.res = Some(FALSE)

(***************************************************************************)
(* Properties of the Lamport signature (LamportSpec).                       *)
(***************************************************************************)
\* the bits at which the digests of the message verified and of the message
\* signed differ
DifferingBits ==
    {i \in 1..NumBits :
        bit_of_byteslice(i - 1, digest_bytes(hash(lVer.message)))
            # bit_of_byteslice(i - 1, digest_bytes(hash(lSig.message)))}

\* C14: public_key(K).verify(m, K.sign(m')) is true when H(m) = H(m'), and
\* false when the digests differ in some bit i with
\* H(K.left[i]) # H(K.right[i]).
C14_SignVerify ==
    lVer.called =>
        /\ hash(lVer.message) = hash(lSig.message) => lVer.ok
        /\ (\E i \in DifferingBits : hash(lKey.left[i]) # hash(lKey.right[i]))
              => ~lVer.ok

\* the digests differ in two bits, of which one has equal sides in the key
C14_Witness ==
    /\ lVer.called
    /\ ~lVer.ok
    /\ \E i \in DifferingBits : hash(lKey.left[i]) # hash(lKey.right[i])
    /\ \E i \in DifferingBits : hash(lKey.left[i]) = hash(lKey.right[i])

(***************************************************************************)
(* Properties of a run of Tree::new (BuildSpec).                            *)
(***************************************************************************)
\* an iteration of the build loop that pushes a level
Pushes == bLevels # <<>> /\ bTree = None /\ bTree' = None

\* C19 as stated: for every leaf sequence of length n >= 0, each iteration
\* of the build loop strictly shortens the top level, until it has length 2
\* or the single-leaf return applies, so that Tree::new terminates.
C19_EveryRunShortens ==
    [][Pushes => Len(bLevels'[1]) < Len(bLevels[1])]_vars

\* C19: for every leaf sequence of length n >= 1, each iteration of the
\* build loop strictly shortens the top level to a length of at least 2,
\* and Tree::new returns; the tree returned is Tree::new's tree; so
\* generate(n) returns for n >= 1.
C19_TerminatesFromOneLeaf ==
    /\ [][(Len(bLeaves) >= 1 /\ Pushes) =>
            /\ Len(bLevels'[1]) < Len(bLevels[1])
            /\ Len(bLevels'[1]) >= 2]_vars
    /\ [](bTree # None => bTree = Some(Tree_new(bLeaves)))
    /\ (Len(bLeaves) >= 1) ~> (bTree # None)

\* three leaves: one level pushed, then the return
C19_Witness ==
    /\ Len(bLeaves) = 3
    /\ bTree # None
    /\ Len(bLevels) = 2
    /\ Len(bLevels[1]) = 2

====
